---- MODULE Spec2Model ----
(***************************************************************************)
(* Stream adapters of the SSH-over-WebSocket reproduction:                 *)
(*   WebSocketServerStream   (server/src/websocket-stream.ts)              *)
(*   connectionClientStream  (repro-client-ws.ts)                          *)
(* Each wraps one WebSocket connection and extends the SSH library's       *)
(* BaseStream.  The WebSocket connection and BaseStream are external: the  *)
(* model records every call an adapter makes on them, in order.            *)
(***************************************************************************)
EXTENDS Integers, Sequences, FiniteSets, TLC

(* ---------------------------- bounds ----------------------------------- *)
MaxIn == 2
MaxOut == 2
MaxAttempts == 2
MaxProcs == 2
MaxConns == 2

(* ------------------------ JavaScript values ---------------------------- *)
\* A JavaScript value as seen by typeof / truthiness: its type tag and, for
\* a number, its value (n is 0 for the other types).
Undefined == [t |-> "undefined", n |-> 0]
Num(n) == [t |-> "number", n |-> n]
Str == [t |-> "string", n |-> 0]

\* `!v` for an undefined / number / non-empty string value
Falsy(v) == v.t = "undefined" \/ (v.t = "number" /\ v.n = 0)

\* `v ?? d`
Coalesce(v, d) == IF v.t = "undefined" THEN d ELSE v

\* Buffer contents: the empty buffer and a one-byte buffer
Payloads == {<<>>, <<7>>}

\* The `data` argument of write: a Buffer (truthy, even when empty) or absent
NoData == [present |-> FALSE, bytes |-> <<>>]
Buf(b) == [present |-> TRUE, bytes |-> b]
WriteArgs == {NoData} \cup {Buf(b) : b \in Payloads}

\* Error objects: identity, message, and the value of their `code` property
NoError == [id |-> "none", message |-> "", code |-> Undefined]
Err(id, msg, code) == [id |-> id, message |-> msg, code |-> code]
CloseErrors ==
  { Err("E1", "m1", Undefined), Err("E2", "m2", Num(4000)), Err("E3", "m3", Str) }
CloseArgs == {NoError} \cup CloseErrors
TransportErrors == { Err("T1", "socket", Str) }

\* The (code, reason) pairs a transport close event may carry
CloseCodes == {Undefined, Num(0), Num(1006)}
Reasons == {"bye"}

Kinds == {"server", "client"}

\* An inbound WebSocket message: binary or text frame, the representation
\* of the payload handed to the listener, and its bytes.  The server's
\* library hands a Buffer in data.binaryData; the client's hands a Buffer,
\* or an ArrayBuffer for a binary frame when binaryType asks for one.
Msg(bin, repr, b) == [binary |-> bin, repr |-> repr, bytes |-> b]
TextMessage == Msg(FALSE, "buffer", <<7>>)
AllMessages ==
  {TextMessage} \cup {Msg(TRUE, r, b) : r \in {"buffer", "arraybuffer"}, b \in Payloads}
Messages(k) ==
  IF k = "client" THEN AllMessages ELSE {m \in AllMessages : m.repr = "buffer"}

(* ----------------------------- effects --------------------------------- *)
\* A handler is a sequence of calls on the transport and on BaseStream.
Eff(e) == [e |-> e, bytes |-> <<>>, err |-> NoError, code |-> Undefined,
           reason |-> "", args |-> 0]

OnData(b) == [Eff("onData") EXCEPT !.bytes = b]
OnEnd == Eff("onEnd")
OnError(err) == [Eff("onError") EXCEPT !.err = err]
ClosedFire(err) == [Eff("closedFire") EXCEPT !.err = err]
SetDisposed == Eff("setDisposed")
SuperDispose == Eff("superDispose")
WsSend(b) == [Eff("wsSend") EXCEPT !.bytes = b]
\* websocket.close(...) / websocket.drop(...) with `args` actual arguments
WsClose(n, code, reason) ==
  [Eff("wsClose") EXCEPT !.args = n, !.code = code, !.reason = reason]
WsDrop(code, reason) ==
  [Eff("wsDrop") EXCEPT !.args = 2, !.code = code, !.reason = reason]
Throw(name) == [Eff("throw") EXCEPT !.reason = name]

(* ------------------ the handlers, as the code writes them -------------- *)
\* Buffer.from(x) for a Buffer or an ArrayBuffer: a Buffer of the same bytes
BufferFrom(bytes) == [i \in 1..Len(bytes) |-> bytes[i]]

\* Mutation: a listener that skips zero-length binary frames
MessageHandlerSkipEmpty(k, m) ==
  IF m.binary /\ Len(m.bytes) > 0 THEN <<OnData(BufferFrom(m.bytes))>> ELSE <<>>

\* Mutation: a listener without the frame-type test
MessageHandlerAnyType(k, m) == <<OnData(BufferFrom(m.bytes))>>

\* "message" listener.  server: (data) with data.type / data.binaryData;
\* client: (data, isBinary) with data a Buffer or an ArrayBuffer.
MessageHandler(k, m) ==
  IF k = "server"
  THEN IF m.binary THEN <<OnData(BufferFrom(m.bytes))>> ELSE <<>>
  ELSE IF m.binary
       THEN <<OnData(IF m.repr = "buffer" THEN m.bytes ELSE BufferFrom(m.bytes))>>
       ELSE <<>>

\* Mutation: only an absent code counts as a clean end
CloseHandlerZeroIsError(k, code, reason) ==
  IF code.t = "undefined"
  THEN <<OnEnd>>
  ELSE <<OnError(Err("new", reason, code))>>

\* "close" listener of the adapter
CloseHandler(k, code, reason) ==
  IF k = "server"
  THEN IF code.t = "undefined" \/ Falsy(code)
       THEN <<OnEnd>>
       ELSE <<OnError(Err("new", reason, code))>>
  ELSE IF Falsy(code)
       THEN <<OnEnd>>
       ELSE <<OnError(Err("new", reason, Coalesce(code, Num(1011))))>>

\* "error" listener.  The server adapter registers one; the client adapter
\* registers none, so the only listener on the client socket is the one of
\* testSSH, which rejects the connection promise with a new Error.
Reject(err) == [Eff("reject") EXCEPT !.err = err]
ErrorHandler(k, error) ==
  IF k = "server"
  THEN <<OnError(error)>>
  ELSE <<Reject(Err("new", "Failed to connect to server", Undefined))>>

\* Mutation: write without the disposed test
WriteNoDisposedCheck(k, isDisposed, data) ==
  IF ~data.present THEN <<Throw("TypeError")>>
  ELSE <<WsSend(data.bytes)>>

\* Mutation: write without the argument test
WriteNoArgCheck(k, isDisposed, data) ==
  IF isDisposed THEN <<Throw("ObjectDisposedError")>>
  ELSE <<WsSend(data.bytes)>>

\* Mutation: write that does not send a zero-length buffer
WriteSkipsEmpty(k, isDisposed, data) ==
  IF isDisposed THEN <<Throw("ObjectDisposedError")>>
  ELSE IF ~data.present THEN <<Throw("TypeError")>>
  ELSE IF Len(data.bytes) = 0 THEN <<>>
  ELSE <<WsSend(data.bytes)>>

\* write(data)
Write(k, isDisposed, data) ==
  IF k = "server"
  THEN IF ~data.present THEN <<Throw("TypeError")>>
       ELSE IF isDisposed THEN <<Throw("ObjectDisposedError")>>
       ELSE <<WsSend(data.bytes)>>
  ELSE IF isDisposed THEN <<Throw("ObjectDisposedError")>>
       ELSE IF ~data.present THEN <<Throw("TypeError")>>
       ELSE <<WsSend(data.bytes)>>

\* new Error("Stream closed.")
StreamClosed == Err("new", "Stream closed.", Undefined)

\* The transport call close(error) makes
CloseTransport(k, error) ==
  IF k = "server"
  THEN IF error = NoError
       THEN WsClose(0, Undefined, "")
       ELSE WsDrop(IF error.code.t = "number" THEN error.code ELSE Undefined,
                   error.message)
  ELSE IF error = NoError
       THEN WsClose(1, Num(1000), "")
       ELSE WsClose(2, Coalesce(error.code, Num(1011)), error.message)

\* Mutation: the error notification fired ahead of closed and of the flag
CloseNotifyErrorFirst(error) ==
  << OnError(IF error = NoError THEN StreamClosed ELSE error),
     SetDisposed, ClosedFire(error) >>

\* The notifications close(error) fires once the transport call is made
CloseNotify(error) ==
  << SetDisposed, ClosedFire(error),
     OnError(IF error = NoError THEN StreamClosed ELSE error) >>

\* close(error?)
Close(k, isDisposed, error) ==
  IF isDisposed
  THEN <<Throw("ObjectDisposedError")>>
  ELSE <<CloseTransport(k, error)>> \o CloseNotify(error)

\* Mutation: dispose without the disposed test
DisposeAlwaysCloses(k, isDisposed) ==
  <<WsClose(0, Undefined, "")>> \o <<SuperDispose>>

\* dispose()
Dispose(k, isDisposed) ==
  (IF ~isDisposed THEN <<WsClose(0, Undefined, "")>> ELSE <<>>)
    \o <<SuperDispose>>

(* ------------------------------ state ---------------------------------- *)
VARIABLES
  kind,       \* which adapter class this instance is
  disposed,   \* BaseStream.disposed
  wsState,    \* the transport: "open", "closing" (local close requested), "closed"
  inbox,      \* every message the transport has emitted, in order
  delivered,  \* the argument of every onData call, in order
  issued,     \* the bytes of every write that returned normally, in order
  sent,       \* the argument of every websocket.send call, in order
  notes,      \* end / error / closed notifications, each with disposed as it fired
  wscalls,    \* every websocket.close / websocket.drop call, in order
  errored,    \* the transport has emitted its error event
  last,       \* the last operation: its arguments, outcome and effects
  sessionMap, \* client: the module-level sessionMap, in insertion order
  closes,     \* client: every session.close call, in order
  att,        \* client: the runs of testSSH
  procs,      \* client: the processes started by spawnProcess
  srv,        \* server: the accepted connections and their sessions
  ev          \* client / server: the last callback that ran

adapterVars == <<kind, disposed, wsState, inbox, delivered, issued, sent,
                 notes, wscalls, errored, last>>

\* The state outside the stream adapter
others == <<sessionMap, closes, att, procs, srv, ev>>

vars == <<kind, disposed, wsState, inbox, delivered, issued, sent, notes,
          wscalls, errored, last, sessionMap, closes, att, procs, srv, ev>>

\* The adapter-side state a handler's effects act on
Cur == [disposed |-> disposed, wsState |-> wsState, delivered |-> delivered,
        sent |-> sent, notes |-> notes, wscalls |-> wscalls,
        result |-> "ok", done |-> <<>>, fired |-> <<>>]

Note(type, err, d) == [type |-> type, err |-> err, disposed |-> d]

\* One call on the transport or on BaseStream
Step(st, f) ==
  LET st1 == [st EXCEPT !.done = Append(@, f)]
  IN CASE f.e = "onData" -> [st1 EXCEPT !.delivered = Append(@, f.bytes)]
       [] f.e = "onEnd" ->
            [st1 EXCEPT !.notes = Append(@, Note("end", NoError, st.disposed)),
                        !.fired = Append(@, Note("end", NoError, st.disposed))]
       [] f.e = "onError" ->
            [st1 EXCEPT !.notes = Append(@, Note("error", f.err, st.disposed)),
                        !.fired = Append(@, Note("error", f.err, st.disposed))]
       [] f.e = "closedFire" ->
            [st1 EXCEPT !.notes = Append(@, Note("closed", f.err, st.disposed)),
                        !.fired = Append(@, Note("closed", f.err, st.disposed))]
       [] f.e = "setDisposed" -> [st1 EXCEPT !.disposed = TRUE]
       [] f.e = "superDispose" -> [st1 EXCEPT !.disposed = TRUE]
       [] f.e = "wsSend" -> [st1 EXCEPT !.sent = Append(@, f.bytes)]
       [] f.e \in {"wsClose", "wsDrop"} ->
            [st1 EXCEPT !.wscalls = Append(@, f),
                        !.wsState = IF @ = "open" THEN "closing" ELSE @]
       [] f.e = "reject" -> st1
       [] f.e = "throw" -> [st1 EXCEPT !.result = f.reason]

\* Run a handler: its calls in order, up to the first throw
RECURSIVE Run(_, _)
Run(st, effs) ==
  IF effs = <<>> \/ st.result # "ok" THEN st
  ELSE Run(Step(st, Head(effs)), Tail(effs))

NoMessage == [binary |-> FALSE, repr |-> "buffer", bytes |-> <<>>]

Last(op, st) ==
  [op |-> op, pre |-> disposed, result |-> st.result, done |-> st.done,
   fired |-> st.fired, msg |-> NoMessage, data |-> NoData, err |-> NoError,
   code |-> Undefined, reason |-> ""]

Commit(st) ==
  /\ disposed' = st.disposed
  /\ delivered' = st.delivered
  /\ sent' = st.sent
  /\ notes' = st.notes
  /\ wscalls' = st.wscalls

\* Nothing has run outside the adapter
OthersIdle ==
  /\ sessionMap = <<>>
  /\ closes = <<>>
  /\ att = <<>>
  /\ procs = <<>>
  /\ srv = <<>>
  /\ ev = [op |-> "init"]

Init ==
  /\ OthersIdle
  /\ kind \in Kinds
  /\ disposed = FALSE
  /\ wsState = "open"
  /\ inbox = <<>>
  /\ delivered = <<>>
  /\ issued = <<>>
  /\ sent = <<>>
  /\ notes = <<>>
  /\ wscalls = <<>>
  /\ errored = FALSE
  /\ last = [Last("init", Cur) EXCEPT !.op = "init"]

(* ------------------------------ actions -------------------------------- *)
\* The transport emits a message
Receive(m) ==
  /\ wsState # "closed"
  /\ Len(inbox) < MaxIn
  /\ m \in Messages(kind)
  /\ LET st == Run(Cur, MessageHandler(kind, m))
     IN /\ Commit(st)
        /\ wsState' = st.wsState
        /\ last' = [Last("message", st) EXCEPT !.msg = m]
  /\ inbox' = Append(inbox, m)
  /\ UNCHANGED <<kind, issued, errored>>
  /\ UNCHANGED others

\* The transport emits its close event
TransportClose(code, reason) ==
  /\ wsState # "closed"
  /\ LET st == Run(Cur, CloseHandler(kind, code, reason))
     IN /\ Commit(st)
        /\ last' = [Last("wsclose", st) EXCEPT !.code = code, !.reason = reason]
  /\ wsState' = "closed"
  /\ UNCHANGED <<kind, inbox, issued, errored>>
  /\ UNCHANGED others

\* The transport emits its error event (a socket fails once)
TransportError(error) ==
  /\ wsState # "closed"
  /\ ~errored
  /\ LET st == Run(Cur, ErrorHandler(kind, error))
     IN /\ Commit(st)
        /\ wsState' = st.wsState
        /\ last' = [Last("wserror", st) EXCEPT !.err = error]
  /\ errored' = TRUE
  /\ UNCHANGED <<kind, inbox, issued>>
  /\ UNCHANGED others

\* The session layer calls write(data)
CallWrite(data) ==
  /\ Len(issued) < MaxOut
  /\ LET st == Run(Cur, Write(kind, disposed, data))
     IN /\ Commit(st)
        /\ wsState' = st.wsState
        /\ issued' = IF st.result = "ok" THEN Append(issued, data.bytes) ELSE issued
        /\ last' = [Last("write", st) EXCEPT !.data = data]
  /\ UNCHANGED <<kind, inbox, errored>>
  /\ UNCHANGED others

\* The session layer calls close(error?)
CallClose(error) ==
  /\ LET st == Run(Cur, Close(kind, disposed, error))
     IN /\ Commit(st)
        /\ wsState' = st.wsState
        /\ last' = [Last("close", st) EXCEPT !.err = error]
  /\ UNCHANGED <<kind, inbox, issued, errored>>
  /\ UNCHANGED others

\* The session layer calls dispose()
CallDispose ==
  /\ LET st == Run(Cur, Dispose(kind, disposed))
     IN /\ Commit(st)
        /\ wsState' = st.wsState
        /\ last' = Last("dispose", st)
  /\ UNCHANGED <<kind, inbox, issued, errored>>
  /\ UNCHANGED others

\* A stream adapter that is constructed and never used (the specifications
\* of the client and server programs leave the adapter as it is)
AdapterIdle ==
  /\ kind = "client"
  /\ disposed = FALSE
  /\ wsState = "open"
  /\ inbox = <<>>
  /\ delivered = <<>>
  /\ issued = <<>>
  /\ sent = <<>>
  /\ notes = <<>>
  /\ wscalls = <<>>
  /\ errored = FALSE
  /\ last = [Last("init", Cur) EXCEPT !.op = "init"]

Next ==
  \/ \E m \in AllMessages : Receive(m)
  \/ \E c \in CloseCodes, r \in Reasons : TransportClose(c, r)
  \/ \E e \in TransportErrors : TransportError(e)
  \/ \E d \in WriteArgs : CallWrite(d)
  \/ \E e \in CloseArgs : CallClose(e)
  \/ CallDispose

Spec == Init /\ [][Next]_vars

TypeOK ==
  /\ kind \in Kinds
  /\ disposed \in BOOLEAN
  /\ wsState \in {"open", "closing", "closed"}
  /\ Len(inbox) <= MaxIn
  /\ Len(issued) <= MaxOut

(* ------------------------------ claims --------------------------------- *)
RECURSIVE BinaryPayloads(_)
BinaryPayloads(q) ==
  IF q = <<>> THEN <<>>
  ELSE (IF Head(q).binary THEN <<Head(q).bytes>> ELSE <<>>)
         \o BinaryPayloads(Tail(q))

Calls(done, names) == SelectSeq(done, LAMBDA f : f.e \in names)

\* C1: the onData calls are exactly the binary messages received, one call
\* per message, in the order received and with the same bytes.
C1_OrderedIntactDelivery ==
  /\ delivered = BinaryPayloads(inbox)
  /\ (last.op = "message" /\ last.msg.binary)
       => last.done = <<OnData(last.msg.bytes)>>

C1_Witness ==
  /\ Len(delivered) = 2
  /\ delivered[1] # delivered[2]
  /\ inbox[1].binary /\ inbox[2].binary

\* C2: a write or close made after the adapter is disposed fails with
\* ObjectDisposedError, whatever the argument (absent data included).
C2_DisposedFailsWithODE ==
  (last.op \in {"write", "close"} /\ last.pre)
    => last.result = "ObjectDisposedError"

\* C3: a transport close with no code or code 0 signals end-of-stream and no
\* error; a nonzero code signals one error whose code field is that code,
\* and no end-of-stream.
C3_CloseCodeMapping ==
  last.op = "wsclose" =>
    /\ Len(last.fired) = 1
    /\ IF last.code.t = "undefined" \/ last.code = Num(0)
       THEN last.fired[1].type = "end"
       ELSE /\ last.fired[1].type = "error"
            /\ last.fired[1].err.code = last.code

C3_Witness ==
  /\ last.op = "wsclose"
  /\ last.code = Num(1006)
  /\ last.fired[1].type = "error"

\* C4: close on a non-disposed adapter sets disposed, then fires closed with
\* the optional error, then fires error with the given error or a generic
\* "Stream closed." error; disposed is true when either fires.
C4_CloseNotificationOrder ==
  (last.op = "close" /\ ~last.pre) =>
    /\ disposed
    /\ last.result = "ok"
    /\ last.fired =
         << Note("closed", last.err, TRUE),
            Note("error", IF last.err = NoError THEN StreamClosed ELSE last.err,
                 TRUE) >>

C4_Witness ==
  /\ last.op = "close" /\ ~last.pre
  /\ last.err = NoError
  /\ Len(last.fired) = 2

\* C5: dispose never throws; on a non-disposed adapter it closes the
\* transport with no reason and marks the adapter disposed; on a disposed
\* adapter it leaves the adapter flag and the transport as they were.
C5_DisposeIdempotent ==
  [][ last'.op = "dispose" =>
        /\ last'.result = "ok"
        /\ disposed'
        /\ IF disposed
           THEN UNCHANGED <<disposed, wsState, wscalls, sent>>
           ELSE /\ wscalls' = Append(wscalls, WsClose(0, Undefined, ""))
                /\ UNCHANGED sent ]_vars

C5_Witness ==
  /\ last.op = "dispose" /\ last.pre
  /\ kind = "client"
  /\ wscalls = <<WsClose(0, Undefined, "")>>

\* C6 (as stated): write with empty or absent bytes fails with an
\* invalid-argument error and sends nothing.
C6_EmptyOrAbsentRejected ==
  (last.op = "write" /\ (~last.data.present \/ last.data.bytes = <<>>))
    => /\ last.result = "TypeError"
       /\ Calls(last.done, {"wsSend"}) = <<>>

\* C6 (amended): write with absent bytes fails and sends nothing, and on a
\* non-disposed adapter the failure is the invalid-argument TypeError.
C6_AbsentRejected ==
  (last.op = "write" /\ ~last.data.present)
    => /\ last.result # "ok"
       /\ Calls(last.done, {"wsSend"}) = <<>>
       /\ ~last.pre => last.result = "TypeError"

C6_Witness ==
  /\ last.op = "write" /\ ~last.data.present /\ ~last.pre
  /\ last.result = "TypeError"

\* C7: close() with no error makes a normal transport close; close(error)
\* makes an abnormal one whose code is error.code when that is a number and
\* a default abnormal code otherwise, with the error's message as reason.
DefaultAbnormal(k) == IF k = "server" THEN Undefined ELSE Num(1011)
C7_CloseCodeAndReason ==
  (last.op = "close" /\ ~last.pre) =>
    LET c == Calls(last.done, {"wsClose", "wsDrop"})
    IN /\ Len(c) = 1
       /\ IF last.err = NoError
          THEN c[1].e = "wsClose" /\ c[1].code \in {Undefined, Num(1000)}
               /\ c[1].reason = ""
          ELSE /\ c[1].reason = last.err.message
               /\ c[1].code = IF last.err.code.t = "number" THEN last.err.code
                              ELSE DefaultAbnormal(kind)

\* C8: every error event of the transport raises an error notification
\* carrying that same error object.
C8_TransportErrorSurfaces ==
  last.op = "wserror" =>
    /\ Len(last.fired) = 1
    /\ last.fired[1].type = "error"
    /\ last.fired[1].err = last.err

\* C9: a non-binary message makes no call at all: nothing is delivered,
\* nothing is kept for later, and the adapter and transport are unchanged.
C9_TextIgnored ==
  [][ (inbox' # inbox /\ ~inbox'[Len(inbox')].binary) =>
        /\ last'.done = <<>>
        /\ UNCHANGED <<delivered, disposed, notes, sent, wscalls, wsState>>
        /\ delivered' = BinaryPayloads(inbox') ]_vars

C9_Witness ==
  /\ last.op = "message" /\ ~last.msg.binary
  /\ Len(inbox) = 2 /\ inbox[1].binary
  /\ Len(delivered) = 1

\* C10: every successful write makes exactly one send with the given bytes,
\* and the sends appear on the transport in the order of the writes.
C10_WritesSentInOrder ==
  /\ sent = issued
  /\ (last.op = "write" /\ last.result = "ok")
       => last.done = <<WsSend(last.data.bytes)>>

C10_Witness ==
  /\ Len(sent) = 2
  /\ sent[1] # sent[2]
  /\ last.op = "write" /\ last.result = "ok"

\* C16: no websocket.send call is made once the adapter is disposed: every
\* send of a handler happens with disposed false before the handler and
\* ahead of any statement of the handler that sets it.
C16_NoSendAfterDisposed ==
  \A i \in 1..Len(last.done) :
    last.done[i].e = "wsSend" =>
      /\ ~last.pre
      /\ \A j \in 1..(i - 1) :
           last.done[j].e \notin {"setDisposed", "superDispose"}

C16_Witness ==
  /\ last.op = "write" /\ last.pre /\ last.data.present
  /\ last.result = "ObjectDisposedError"
  /\ Len(sent) = 1

\* C17: a binary message whose listener runs after the adapter is disposed
\* is inert: it makes no onData call.
C17_InertAfterDisposed ==
  (last.op = "message" /\ last.pre)
    => Calls(last.done, {"onData"}) = <<>>

\* C21: over the adapter's lifetime, whatever the interleaving of close(),
\* dispose() and the transport's close and error events, at most one
\* terminal notification (onEnd or onError) reaches the session layer.
C21_AtMostOneTerminal ==
  Cardinality({i \in 1..Len(notes) : notes[i].type \in {"end", "error"}}) <= 1

(***************************************************************************)
(* The client's session registry: closeSessions (repro-client-ws.ts)       *)
(***************************************************************************)
\* Connection identifiers, and the session registered under each
ServerURI == "ws://localhost:8080"
Keys == {ServerURI, "ws://b", "ws://c"}
SessionOf(key) == [id |-> key]

Entry(key, session) == [key |-> key, session |-> session]

\* A Map, as its entries in insertion order
MapKeys(map) == {map[i].key : i \in 1..Len(map)}
MapDelete(map, key) == SelectSeq(map, LAMBDA en : en.key # key)
MapSet(map, key, session) ==
  IF key \in MapKeys(map)
  THEN [i \in 1..Len(map) |->
          IF map[i].key = key THEN Entry(key, session) ELSE map[i]]
  ELSE Append(map, Entry(key, session))
MapHas(map, key) == key \in MapKeys(map)
MapGet(map, key) == map[CHOOSE i \in 1..Len(map) : map[i].key = key].session

\* Every insertion order of every set of keys
RECURSIVE Maps(_)
Maps(keys) ==
  {<<>>} \cup UNION {{<<Entry(k, SessionOf(k))>> \o m : m \in Maps(keys \ {k})}
                     : k \in keys}

\* The optional `sessions` argument: absent, or an array of keys
NoFilter == [present |-> FALSE, keys |-> {}]
Filter(keys) == [present |-> TRUE, keys |-> keys]
Filters == {NoFilter} \cup {Filter(ks) : ks \in SUBSET Keys}

\* session.close(reason): the call and how its promise settles
CloseCall(session, reason, settles, handled) ==
  [session |-> session, reason |-> reason, settles |-> settles,
   handled |-> handled]
Settles(session, failing) ==
  IF session \in failing THEN "rejected" ELSE "resolved"

\* Mutation: the entry is deleted only when its close succeeds
CloseEntryKeepsFailed(st, en, filter, failing) ==
  IF filter.present /\ en.key \notin filter.keys
  THEN st
  ELSE [map |-> IF en.session \in failing THEN st.map
                ELSE MapDelete(st.map, en.key),
        calls |-> Append(st.calls,
                         CloseCall(en.session, "byApplication",
                                   Settles(en.session, failing), FALSE))]

\* The forEach callback of closeSessions for one [key, session] entry
CloseEntry(st, en, filter, failing) ==
  IF filter.present /\ en.key \notin filter.keys
  THEN st
  ELSE [map |-> MapDelete(st.map, en.key),
        calls |-> Append(st.calls,
                         CloseCall(en.session, "byApplication",
                                   Settles(en.session, failing), FALSE))]

\* Array.from(sessionMap.entries()).forEach(...)
RECURSIVE ForEachEntry(_, _, _, _)
ForEachEntry(entries, st, filter, failing) ==
  IF entries = <<>> THEN st
  ELSE ForEachEntry(Tail(entries), CloseEntry(st, Head(entries), filter, failing),
                    filter, failing)

\* closeSessions(sessions?) on the map `map`
closeSessions(map, filter, failing) ==
  ForEachEntry(map, [map |-> map, calls |-> <<>>], filter, failing)

RegistryInit ==
  /\ AdapterIdle
  /\ sessionMap \in Maps(Keys)
  /\ closes = <<>>
  /\ att = <<>>
  /\ procs = <<>>
  /\ srv = <<>>
  /\ ev = [op |-> "init"]

\* A call of closeSessions; `failing` are the sessions whose close rejects
CallCloseSessions(filter, failing) ==
  /\ sessionMap # <<>>
  /\ LET st == closeSessions(sessionMap, filter, failing)
     IN /\ sessionMap' = st.map
        /\ closes' = closes \o st.calls
        /\ ev' = [op |-> "closeSessions", filter |-> filter,
                  before |-> sessionMap, calls |-> st.calls]
  /\ UNCHANGED <<att, procs, srv>>
  /\ UNCHANGED adapterVars

RegistryNext ==
  \E f \in Filters, failing \in SUBSET {SessionOf(k) : k \in Keys} :
    CallCloseSessions(f, failing)

RegistrySpec == RegistryInit /\ [][RegistryNext]_vars

\* C12: closeSessions with no filter closes every registered session with
\* an application-initiated disconnect and empties the registry; with a key
\* list it closes and removes exactly the entries whose key is listed and
\* keeps the others, in place and unclosed; a close that fails changes none
\* of this.
Selected(map, filter) ==
  SelectSeq(map, LAMBDA en : ~filter.present \/ en.key \in filter.keys)
C12_CloseSessions ==
  ev.op = "closeSessions" =>
    LET sel == Selected(ev.before, ev.filter)
    IN /\ sessionMap = SelectSeq(ev.before, LAMBDA en : en.key \notin MapKeys(sel))
       /\ Len(ev.calls) = Len(sel)
       /\ \A i \in 1..Len(sel) :
            /\ ev.calls[i].session = sel[i].session
            /\ ev.calls[i].reason = "byApplication"
       /\ ~ev.filter.present => sessionMap = <<>>

C12_Witness ==
  /\ ev.op = "closeSessions"
  /\ ev.filter.present
  /\ Len(ev.before) = 3 /\ Len(sessionMap) = 1
  /\ \E i \in 1..Len(ev.calls) : ev.calls[i].settles = "rejected"

(***************************************************************************)
(* The client program: testSSH (repro-client-ws.ts)                        *)
(***************************************************************************)
\* The session created by the a-th run of testSSH
ClientSession(a) == [id |-> a]

\* A promise settles once: resolve / reject of a settled promise is ignored
Settle(promise, outcome) == IF promise = "pending" THEN outcome ELSE promise

\* "close the opened session if exists": the lookup in the sessionMap that
\* testSSH declares, and the close of the session found
ClosePrior(map) ==
  IF MapHas(map, ServerURI)
  THEN <<CloseCall(MapGet(map, ServerURI), "byApplication", "resolved", TRUE)>>
  ELSE <<>>

\* websocket.on("open"): resolve(new connectionClientStream(websocket))
OpenHandler(promise) == Settle(promise, "stream")

\* websocket.on("error"): reject(new Error("Failed to connect ..."))
ConnectErrorHandler(promise) == Settle(promise, "connectError")

\* Mutation: the timer's readyState test inverted
TimerHandlerInverted(readyState, promise) ==
  IF readyState = 1 THEN Settle(promise, "timeout") ELSE promise

\* setTimeout callback: reject(new Error("Connection timeout ...")) unless
\* readyState is OPEN (1)
TimerHandler(readyState, promise) ==
  IF readyState = 0 \/ readyState # 1
  THEN Settle(promise, "timeout")
  ELSE promise

\* Mutation: an exit callback that leaves the key in the map
onExitKeepsKey(a, map, gmap, failing) ==
  LET own == CloseCall(ClientSession(a), "byApplication",
                       Settles(ClientSession(a), failing), TRUE)
      all == closeSessions(gmap, NoFilter, failing)
  IN [map |-> map, gmap |-> all.map, calls |-> <<own>> \o all.calls]

\* The onExit callback testSSH hands to spawnProcess: close the session
\* (the rejection is caught and logged), delete the key from the sessionMap
\* of testSSH, then closeSessions() on the module-level sessionMap
onExit(a, map, gmap, failing) ==
  LET own == CloseCall(ClientSession(a), "byApplication",
                       Settles(ClientSession(a), failing), TRUE)
      all == closeSessions(gmap, NoFilter, failing)
  IN [map |-> MapDelete(map, ServerURI), gmap |-> all.map,
      calls |-> <<own>> \o all.calls]

\* The catch block of testSSH: it logs "SSH session dropped" and makes no
\* call on the session
CatchHandler(a) == <<>>

\* A run of testSSH up to the creation of the WebSocket
NewAttempt ==
  [pc |-> "connecting", map |-> <<>>, ws |-> 0, promise |-> "pending",
   timer |-> "armed", streams |-> 0, failedAt |-> "none", spawned |-> FALSE]

Attempts == 1..Len(att)

\* process.exit(1) has run: testSSH rejected
Halted == \E a \in Attempts : att[a].pc = "failed"

ClientInit ==
  /\ AdapterIdle
  /\ sessionMap = <<>>
  /\ closes = <<>>
  /\ att = <<>>
  /\ procs = <<>>
  /\ srv = <<>>
  /\ ev = [op |-> "init"]

ClientFrame == UNCHANGED <<procs, srv>> /\ UNCHANGED adapterVars

\* testSSH is called: a new sessionMap, the lookup, the WebSocket, the timer
StartTestSSH ==
  /\ ~Halted
  /\ Len(att) < MaxAttempts
  /\ LET map == <<>>
         calls == ClosePrior(map)
     IN /\ att' = Append(att, [NewAttempt EXCEPT !.map = map])
        /\ closes' = closes \o calls
        /\ ev' = [op |-> "start", a |-> Len(att) + 1, calls |-> calls]
  /\ UNCHANGED sessionMap
  /\ ClientFrame

\* The WebSocket opens
WsOpen(a) ==
  /\ a \in Attempts
  /\ ~Halted
  /\ att[a].ws = 0
  /\ att' = [att EXCEPT ![a].ws = 1,
                        ![a].streams = @ + 1,
                        ![a].promise = OpenHandler(@)]
  /\ ev' = [op |-> "open", a |-> a, calls |-> <<>>]
  /\ UNCHANGED <<sessionMap, closes>>
  /\ ClientFrame

\* The WebSocket fails (before or after it opened) and is closed
WsError(a) ==
  /\ a \in Attempts
  /\ ~Halted
  /\ att[a].ws \in {0, 1}
  /\ att' = [att EXCEPT ![a].ws = 3,
                        ![a].promise = ConnectErrorHandler(@)]
  /\ ev' = [op |-> "error", a |-> a, calls |-> <<>>]
  /\ UNCHANGED <<sessionMap, closes>>
  /\ ClientFrame

\* The open WebSocket is closed by the peer
WsClosed(a) ==
  /\ a \in Attempts
  /\ ~Halted
  /\ att[a].ws = 1
  /\ att' = [att EXCEPT ![a].ws = 3]
  /\ ev' = [op |-> "wsclosed", a |-> a, calls |-> <<>>]
  /\ UNCHANGED <<sessionMap, closes>>
  /\ ClientFrame

\* The 10 second timer fires
TimerFires(a) ==
  /\ a \in Attempts
  /\ ~Halted
  /\ att[a].timer = "armed"
  /\ att' = [att EXCEPT ![a].timer = "fired",
                        ![a].promise = TimerHandler(att[a].ws, @)]
  /\ ev' = [op |-> "timer", a |-> a, calls |-> <<>>]
  /\ UNCHANGED <<sessionMap, closes>>
  /\ ClientFrame

\* testSSH resumes after `await new Promise<Stream>`: with the stream it
\* creates the session and calls connect; on a rejection testSSH rejects and
\* the caller runs process.exit(1)
Established(a) ==
  /\ a \in Attempts
  /\ ~Halted
  /\ att[a].pc = "connecting"
  /\ att[a].promise # "pending"
  /\ att' = [att EXCEPT ![a].pc = IF att[a].promise = "stream" THEN "connect"
                                  ELSE "failed"]
  /\ ev' = [op |-> "established", a |-> a, calls |-> <<>>]
  /\ UNCHANGED <<sessionMap, closes>>
  /\ ClientFrame

NextStage(pc) ==
  CASE pc = "connect" -> "auth"
    [] pc = "auth" -> "forward"
    [] pc = "forward" -> "spawn"
    [] pc = "spawn" -> "running"

\* An awaited step of the try block settles: session.connect,
\* session.authenticateClient, pfs.forwardToRemotePort, spawnProcess.
\* After forwardToRemotePort the session is put in the sessionMap of testSSH
\* and spawnProcess is called; a rejection runs the catch block.
StageDone(a, ok) ==
  /\ a \in Attempts
  /\ ~Halted
  /\ att[a].pc \in {"connect", "auth", "forward", "spawn"}
  /\ LET calls == IF ok THEN <<>> ELSE CatchHandler(a)
     IN /\ att' = [att EXCEPT
                     ![a].pc = IF ok THEN NextStage(att[a].pc) ELSE "dropped",
                     ![a].failedAt = IF ok THEN @ ELSE att[a].pc,
                     ![a].map = IF ok /\ att[a].pc = "forward"
                                THEN MapSet(@, ServerURI, ClientSession(a))
                                ELSE @,
                     ![a].spawned = IF ok /\ att[a].pc = "spawn" THEN TRUE ELSE @]
        /\ closes' = closes \o calls
        /\ ev' = [op |-> "stage", a |-> a, calls |-> calls]
  /\ UNCHANGED sessionMap
  /\ ClientFrame

ExitCodes == {0, 1}

\* The ssh process exits: spawnProcess calls the onExit of testSSH
ProcessExit(a, exitCode, rejects) ==
  /\ a \in Attempts
  /\ ~Halted
  /\ att[a].pc = "running"
  /\ LET st == onExit(a, att[a].map, sessionMap,
                      IF rejects THEN {ClientSession(a)} ELSE {})
     IN /\ att' = [att EXCEPT ![a].pc = "exited", ![a].map = st.map]
        /\ sessionMap' = st.gmap
        /\ closes' = closes \o st.calls
        /\ ev' = [op |-> "onExit", a |-> a, calls |-> st.calls,
                  exitCode |-> exitCode]
  /\ ClientFrame

ClientNext ==
  \/ StartTestSSH
  \/ \E a \in 1..MaxAttempts : WsOpen(a)
  \/ \E a \in 1..MaxAttempts : WsError(a)
  \/ \E a \in 1..MaxAttempts : WsClosed(a)
  \/ \E a \in 1..MaxAttempts : TimerFires(a)
  \/ \E a \in 1..MaxAttempts : Established(a)
  \/ \E a \in 1..MaxAttempts, ok \in BOOLEAN : StageDone(a, ok)
  \/ \E a \in 1..MaxAttempts, c \in ExitCodes, r \in BOOLEAN : ProcessExit(a, c, r)

ClientSpec == ClientInit /\ [][ClientNext]_vars

Closed(session) == \E i \in 1..Len(closes) : closes[i].session = session
Registered(a) == MapHas(att[a].map, ServerURI)

\* C11: a session is registered for a connection identifier only after the
\* session registered for it before has been closed, so the sessions
\* registered for one identifier are never two live ones.
C11_PriorSessionClosed ==
  \A a, b \in Attempts :
    (a < b /\ Registered(a) /\ Registered(b)) => Closed(ClientSession(a))

\* C13: when the process exits, the exit callback closes the owning session
\* with an application-initiated disconnect and, in the same callback,
\* removes its key from the sessionMap the session was registered in.
C13_ExitEvictsSession ==
  ev.op = "onExit" =>
    /\ att[ev.a].pc = "exited"
    /\ ~Registered(ev.a)
    /\ Len(ev.calls) >= 1
    /\ ev.calls[1].session = ClientSession(ev.a)
    /\ ev.calls[1].reason = "byApplication"

C13_Witness ==
  /\ ev.op = "onExit"
  /\ ev.exitCode = 0
  /\ att[ev.a].spawned

\* C19: when connect, authentication or port-forward setup fails, the
\* session is closed, is not registered, and no process was spawned for it.
C19_FailedSetupCleansUp ==
  \A a \in Attempts :
    (att[a].pc = "dropped" /\ att[a].failedAt \in {"connect", "auth", "forward"})
      => /\ Closed(ClientSession(a))
         /\ ~Registered(a)
         /\ ~att[a].spawned

\* C20: connection establishment completes once.  An open while the timer
\* is still armed yields the stream; the timer firing while the transport is
\* not open and nothing was yielded yet fails with the timeout; once the
\* outcome is settled no timer, error or close changes it; the timer is one
\* shot and testSSH leaves the establishment phase once.
C20_EstablishOnce ==
  [][ \A a \in Attempts :
        /\ att[a].promise # "pending" => att'[a].promise = att[a].promise
        /\ (att[a].ws = 0 /\ att'[a].ws = 1 /\ att[a].timer = "armed")
             => att'[a].promise = "stream"
        /\ (att[a].timer = "armed" /\ att'[a].timer = "fired"
              /\ att[a].ws # 1 /\ att[a].promise = "pending")
             => att'[a].promise = "timeout"
        /\ att[a].timer = "fired" => att'[a].timer = "fired"
        /\ att[a].pc # "connecting" => att'[a].pc # "connecting"
        /\ att'[a].pc \notin {"connecting", "failed"}
             => att'[a].promise = "stream" ]_vars

C20_Witness ==
  /\ ev.op = "timer"
  /\ att[ev.a].promise = "stream"
  /\ att[ev.a].ws = 3
  /\ att[ev.a].pc = "connect"

(***************************************************************************)
(* spawnProcess (repro-client-ws.ts)                                       *)
(***************************************************************************)
Runtimes == {"Bun", "Node"}

\* options.onExit?.(...): one more call when a handler was given
Invoke(proc) ==
  [proc EXCEPT !.calls = IF proc.hasHandler THEN @ + 1 ELSE @]

\* A process just started by spawnProcess.  Bun: the handler is attached
\* with exited.then(f).catch(g); Node: with sshProcess.on("exit", f).
NewProcess(runtime, hasHandler) ==
  [runtime |-> runtime, hasHandler |-> hasHandler, phase |-> "running",
   calls |-> 0, uncaught |-> FALSE]

\* Bun: the callback given to exited.then.  When the handler throws, the
\* promise returned by then rejects, which schedules the catch callback.
ThenCallbackRun(proc, throws) ==
  [Invoke(proc) EXCEPT !.phase = IF throws /\ proc.hasHandler THEN "catch"
                                 ELSE "done"]

\* Bun: the callback given to .catch; a throw here is an unhandled rejection
CatchCallbackRun(proc, throws) ==
  [Invoke(proc) EXCEPT !.phase = "done",
                       !.uncaught = throws /\ proc.hasHandler]

\* Node: the "exit" listener; a throw here is an uncaught exception
ExitListenerRun(proc, throws) ==
  [Invoke(proc) EXCEPT !.phase = "done",
                       !.uncaught = throws /\ proc.hasHandler]

Procs == 1..Len(procs)

SpawnInit ==
  /\ AdapterIdle
  /\ sessionMap = <<>>
  /\ closes = <<>>
  /\ att = <<>>
  /\ procs = <<>>
  /\ srv = <<>>
  /\ ev = [op |-> "init"]

SpawnFrame == UNCHANGED <<sessionMap, closes, att, srv>> /\ UNCHANGED adapterVars

\* spawnProcess(command, args, options) returns a running process
SpawnProcess(runtime, hasHandler) ==
  /\ Len(procs) < MaxProcs
  /\ procs' = Append(procs, NewProcess(runtime, hasHandler))
  /\ ev' = [op |-> "spawn", p |-> Len(procs) + 1]
  /\ SpawnFrame

\* Bun: the process terminates and its `exited` promise settles
BunExited(p, how) ==
  /\ p \in Procs
  /\ procs[p].runtime = "Bun"
  /\ procs[p].phase = "running"
  /\ procs' = [procs EXCEPT ![p].phase = IF how = "resolve" THEN "then"
                                          ELSE "catch"]
  /\ ev' = [op |-> "exited", p |-> p, how |-> how]
  /\ SpawnFrame

ThenCallback(p, throws) ==
  /\ p \in Procs
  /\ procs[p].phase = "then"
  /\ procs' = [procs EXCEPT ![p] = ThenCallbackRun(@, throws)]
  /\ ev' = [op |-> "then", p |-> p, throws |-> throws]
  /\ SpawnFrame

CatchCallback(p, throws) ==
  /\ p \in Procs
  /\ procs[p].phase = "catch"
  /\ procs' = [procs EXCEPT ![p] = CatchCallbackRun(@, throws)]
  /\ ev' = [op |-> "catch", p |-> p, throws |-> throws]
  /\ SpawnFrame

\* Node: the process terminates and the child emits "exit"
NodeExit(p, throws) ==
  /\ p \in Procs
  /\ procs[p].runtime = "Node"
  /\ procs[p].phase = "running"
  /\ procs' = [procs EXCEPT ![p] = ExitListenerRun(@, throws)]
  /\ ev' = [op |-> "exit", p |-> p, throws |-> throws]
  /\ SpawnFrame

SpawnNext ==
  \/ \E r \in Runtimes, h \in BOOLEAN : SpawnProcess(r, h)
  \/ \E p \in 1..MaxProcs, how \in {"resolve", "reject"} : BunExited(p, how)
  \/ \E p \in 1..MaxProcs, t \in BOOLEAN : ThenCallback(p, t)
  \/ \E p \in 1..MaxProcs, t \in BOOLEAN : CatchCallback(p, t)
  \/ \E p \in 1..MaxProcs, t \in BOOLEAN : NodeExit(p, t)

SpawnSpec == SpawnInit /\ [][SpawnNext]_vars

\* C14: the onExit handler of a spawned process is called exactly once:
\* never twice, and once when the termination has been reported.
C14_OnExitExactlyOnce ==
  \A p \in Procs :
    procs[p].hasHandler =>
      /\ procs[p].calls <= 1
      /\ procs[p].phase = "done" => procs[p].calls = 1

(***************************************************************************)
(* The server program: startSshServer (server/src/index.ts)                *)
(***************************************************************************)
\* The argument of the onRequest handler: the kind of e.request, e.principal
\* (an object, or absent) and e.isAuthorized (false until a handler sets it)
Request(isPortForward, principal) ==
  [isPortForward |-> isPortForward, principal |-> principal,
   isAuthorized |-> FALSE]
Principals == {"none", "user", "admin"}
Requests == {Request(f, pr) : f \in BOOLEAN, pr \in Principals}

\* Mutation: the always-approve stub
OnRequestAlwaysApprove(e) ==
  IF e.isPortForward THEN [e EXCEPT !.isAuthorized = TRUE] ELSE e

\* session.onRequest handler: e.isAuthorized = !!e.principal for a
\* PortForwardRequestMessage, nothing for any other request
OnRequest(e) ==
  IF e.isPortForward
  THEN [e EXCEPT !.isAuthorized = (e.principal # "none")]
  ELSE e

\* wsServer.on("request"): the accepted connection, its stream adapter and
\* its session, connected to that stream
NewConnection(c) ==
  [ws |-> "open", stream |-> [id |-> c, calls |-> <<>>],
   session |-> [id |-> c, stream |-> c, disposed |-> FALSE]]

\* The calls a listener of the adapter makes on its stream, by name
StreamCalls(effs) == [i \in 1..Len(effs) |-> effs[i].e]

\* Mutation: the close listener disposes every session
OnConnectionCloseAll(conns, c) ==
  [d \in 1..Len(conns) |-> [conns[d] EXCEPT !.session.disposed = TRUE]]

\* webSocket.on("close") of the request handler: session.dispose()
OnConnectionClose(conns, c) ==
  [conns EXCEPT ![c].session.disposed = TRUE]

Conns == 1..Len(srv)

ServerInit ==
  /\ AdapterIdle
  /\ sessionMap = <<>>
  /\ closes = <<>>
  /\ att = <<>>
  /\ procs = <<>>
  /\ srv = <<>>
  /\ ev = [op |-> "init"]

ServerFrame ==
  UNCHANGED <<sessionMap, closes, att, procs>> /\ UNCHANGED adapterVars

\* A connection request arrives and is accepted
AcceptConnection ==
  /\ Len(srv) < MaxConns
  /\ srv' = Append(srv, NewConnection(Len(srv) + 1))
  /\ ev' = [op |-> "accept", c |-> Len(srv) + 1]
  /\ ServerFrame

\* A session request arrives on a connected session
SessionRequest(c, e) ==
  /\ c \in Conns
  /\ srv[c].ws = "open"
  /\ ~srv[c].session.disposed
  /\ ev' = [op |-> "request", c |-> c, request |-> e, after |-> OnRequest(e),
            again |-> OnRequest(OnRequest(e))]
  /\ UNCHANGED srv
  /\ ServerFrame

\* The socket of a connection fails: the adapter's error listener runs; the
\* close event of the connection is still to come
ConnectionError(c, error) ==
  /\ c \in Conns
  /\ srv[c].ws = "open"
  /\ srv' = [srv EXCEPT ![c].ws = "failed",
                        ![c].stream.calls =
                           @ \o StreamCalls(ErrorHandler("server", error))]
  /\ ev' = [op |-> "connError", c |-> c]
  /\ ServerFrame

\* A connection emits "close": the adapter's close listener runs, then the
\* listener of the request handler
ConnectionClose(c, code, reason) ==
  /\ c \in Conns
  /\ srv[c].ws # "closed"
  /\ LET s1 == [srv EXCEPT ![c].ws = "closed",
                           ![c].stream.calls =
                              @ \o StreamCalls(CloseHandler("server", code, reason))]
     IN srv' = OnConnectionClose(s1, c)
  /\ ev' = [op |-> "connClose", c |-> c]
  /\ ServerFrame

ServerNext ==
  \/ AcceptConnection
  \/ \E c \in 1..MaxConns, e \in Requests : SessionRequest(c, e)
  \/ \E c \in 1..MaxConns, e \in TransportErrors : ConnectionError(c, e)
  \/ \E c \in 1..MaxConns, code \in CloseCodes, r \in Reasons :
       ConnectionClose(c, code, r)

ServerSpec == ServerInit /\ [][ServerNext]_vars

\* C15: a port-forward request is authorized exactly when it carries a
\* principal; nothing else of the request or of the server changes, and
\* the handler run again on its own result changes nothing.
C15_AuthorizeIffPrincipal ==
  [][ ev'.op = "request" =>
        /\ ev'.request.isPortForward
             => (ev'.after.isAuthorized <=> ev'.request.principal # "none")
        /\ ev'.after.principal = ev'.request.principal
        /\ ev'.after.isPortForward = ev'.request.isPortForward
        /\ ev'.again = ev'.after
        /\ srv' = srv ]_vars

C15_Witness ==
  /\ ev.op = "request"
  /\ ev.request.isPortForward
  /\ ev.request.principal = "none"
  /\ ~ev.after.isAuthorized

====
